---- MODULE Spec2Model ----
(***************************************************************************)
(* Import queue consumer and series reconciliation of the desktop          *)
(* renderer: the DashboardPage import-queue effect, its producers          *)
(* (AddSeriesModal, SearchControlBar), importSeries, reloadSeries and      *)
(* reloadSeriesList over the library store.                                *)
(*                                                                         *)
(* Specifications:                                                         *)
(*   Spec        the import queue, its producers and the imports           *)
(*   FairSpec    Spec with the renders, the effects and the ipc replies    *)
(*               of an import taking place when they are due               *)
(*   ReloadSpec  one reloadSeriesList batch at a time, interleaved with    *)
(*               the user operations that write the same store             *)
(*   ImportSpec  the importSeries calls of the consumer, one at a time,    *)
(*               against the store                                         *)
(*   ReimportedSpec  ReloadSpec from the library in which a series was     *)
(*               imported a second time                                    *)
(***************************************************************************)
EXTENDS Integers, Sequences, FiniteSets, TLC

\* ---------------------------------------------------------------- bounds
MaxTasks == 3         \* import tasks enqueued in one behaviour
MaxBatches == 1       \* reloadSeriesList invocations in one behaviour
MaxUserOps == 1       \* user operations interleaved with one behaviour
MaxImports == 2       \* importSeries calls against the store in one behaviour

\* ------------------------------------------------------------ data model
NoId == 0                       \* `undefined` id of a Series or Chapter
Undefined == "undefined"        \* `undefined` (a field that is not set)
FS_METADATA == "filesystem"     \* FS_METADATA.id
EXT == "ext"                    \* some other extension id
Categories == {"c1"}
NoCategories == {Undefined}     \* `categories` of a series that has none set
TrackerKeys == {"k0", "k1"}     \* values of the tracker-key mapping

\* What an ipc call (ipcRenderer.invoke) can come back with: a value,
\* `undefined`, or a rejection.
IpcOutcomes == {"value", "undefined", "thrown"}

\* Titles are strings of character codes: 0..9 are the digits, larger
\* numbers are letters.
RECURSIVE lexCompare(_, _)
lexCompare(a, b) ==
  IF a = <<>> /\ b = <<>> THEN 0
  ELSE IF a = <<>> THEN -1
  ELSE IF b = <<>> THEN 1
  ELSE IF Head(a) < Head(b) THEN -1
  ELSE IF Head(a) > Head(b) THEN 1
  ELSE lexCompare(Tail(a), Tail(b))

\* a.title.localeCompare(b.title) of reloadSeriesList
localeCompare(a, b) == lexCompare(a, b)

RECURSIVE insertSorted(_, _)
insertSorted(sorted, s) ==
  IF sorted = <<>> THEN <<s>>
  ELSE IF localeCompare(s.title, Head(sorted).title) < 0
       THEN <<s>> \o sorted
       ELSE <<Head(sorted)>> \o insertSorted(Tail(sorted), s)

\* the caller's list as it is, taken for the sorted one
callerOrder(list) == list

\* [...seriesList].sort(byTitle): Array.prototype.sort is stable
RECURSIVE sortByTitle(_)
sortByTitle(list) ==
  IF list = <<>> THEN <<>>
  ELSE insertSorted(sortByTitle(SubSeq(list, 1, Len(list) - 1)), list[Len(list)])

Range(s) == {s[i] : i \in 1..Len(s)}

RECURSIVE SetToSeq(_)
SetToSeq(S) ==
  IF S = {} THEN <<>>
  ELSE LET x == CHOOSE y \in S : TRUE IN <<x>> \o SetToSeq(S \ {x})

\* ------------------------------------------------ library service (store)
\* The store is the library service: the series records keyed by id and,
\* per series id, the list of its chapters keyed by chapter id.
VARIABLES
  seriesStore,        \* the stored series records
  chapterStore,       \* series id -> the stored chapters of that series
  nextUuid,           \* the next identifier uuidv4 hands out
  chapterLanguages    \* chapterLanguagesState (a setting)

storeVars == <<seriesStore, chapterStore, nextUuid, chapterLanguages>>

\* the stored series in the order they were first stored (identifiers are
\* handed out in increasing order)
RECURSIVE seriesInOrder(_)
seriesInOrder(store) ==
  IF store = {} THEN <<>>
  ELSE LET first == CHOOSE s \in store : \A t \in store : s.id <= t.id
       IN <<first>> \o seriesInOrder(store \ {first})

fetchSeriesList(store) == seriesInOrder(store)

fetchSeries(store, id) == {s \in store : s.id = id}

fetchChapters(chapters, seriesId) ==
  IF seriesId \in DOMAIN chapters THEN chapters[seriesId] ELSE <<>>

\* upsertSeries: assigns an identifier if absent, replaces the record of that
\* id, returns the stored form
upsertedSeries(series, fresh) ==
  IF series.id = NoId THEN [series EXCEPT !.id = fresh] ELSE series

upsertSeries(store, series, fresh) ==
  {s \in store : s.id # upsertedSeries(series, fresh).id}
    \cup {upsertedSeries(series, fresh)}

uuidsForSeries(series) == IF series.id = NoId THEN 1 ELSE 0

IndexOfId(list, id) ==
  IF \E i \in 1..Len(list) : list[i].id = id
  THEN CHOOSE i \in 1..Len(list) :
         list[i].id = id /\ \A j \in 1..(i - 1) : list[j].id # id
  ELSE 0

\* one chapter into the list: a chapter without id gets a fresh one; a chapter
\* whose id is stored replaces that entry, any other is added at the end
upsertChapter(list, chapter, fresh) ==
  LET c == IF chapter.id = NoId THEN [chapter EXCEPT !.id = fresh] ELSE chapter
      i == IndexOfId(list, c.id)
  IN IF i = 0 THEN Append(list, c) ELSE [list EXCEPT ![i] = c]

RECURSIVE upsertChapterList(_, _, _)
upsertChapterList(list, chapters, fresh) ==
  IF chapters = <<>> THEN list
  ELSE upsertChapterList(
         upsertChapter(list, Head(chapters), fresh),
         Tail(chapters),
         IF Head(chapters).id = NoId THEN fresh + 1 ELSE fresh)

uuidsForChapters(chapters) ==
  Cardinality({i \in 1..Len(chapters) : chapters[i].id = NoId})

\* upsertChapters(chapters, series): nothing for a series without id
writeChapters(store, seriesId, list) ==
  [id \in DOMAIN store \cup {seriesId} |-> IF id = seriesId THEN list ELSE store[id]]

upsertChapters(store, chapters, series, fresh) ==
  IF series.id = NoId THEN store
  ELSE writeChapters(store, series.id,
         upsertChapterList(fetchChapters(store, series.id), chapters, fresh))

\* removeChapters(ids, seriesId)
removeChapters(store, ids, seriesId) ==
  writeChapters(store, seriesId,
    SelectSeq(fetchChapters(store, seriesId), LAMBDA c : c.id \notin Range(ids)))

\* library.removeSeries(id): the record and its chapters
removeSeriesFromStore(store, id) == {s \in store : s.id # id}

removeSeriesChapters(store, id) == [i \in DOMAIN store \ {id} |-> store[i]]

\* getNumberUnreadChapters
getNumberUnreadChapters(chapters) ==
  Cardinality({i \in 1..Len(chapters) : ~chapters[i].read})

\* the count of the unread stored chapters whatever their language
updateSeriesNumberUnreadOfAllLanguages(store, chapters, series, languages) ==
  IF series.id # NoId
  THEN upsertSeries(
         store,
         [series EXCEPT !.numberUnread =
            getNumberUnreadChapters(fetchChapters(chapters, series.id))],
         NoId)
  ELSE store

\* updateSeriesNumberUnread: the series record written back with the count of
\* the unread stored chapters in the languages (all, if no language is set)
updateSeriesNumberUnread(store, chapters, series, languages) ==
  IF series.id # NoId
  THEN upsertSeries(
         store,
         [series EXCEPT !.numberUnread =
            getNumberUnreadChapters(
              SelectSeq(fetchChapters(chapters, series.id),
                        LAMBDA c : c.languageKey \in languages \/ languages = {}))],
         NoId)
  ELSE store

\* ------------------------------------------------- reload (ReloadSpec) state
\* reloadSeriesList and the reloadSeries call it awaits: their parameters and
\* locals, and what they show to the outside.
VARIABLES
  reloadingSeriesList, \* reloadingSeriesListState
  seriesListState,     \* seriesListState, as last published by setSeriesList
  batchPc,             \* reloadSeriesList: "idle", "running", "done", "rejected"
  seriesList,          \* reloadSeriesList: the caller's list
  sortedSeriesList,    \* reloadSeriesList: sortedSeriesList
  cur,                 \* reloadSeriesList: cur
  failedToUpdate,      \* reloadSeriesList: failedToUpdate
  toast,               \* the summary reloadSeriesList ended with ({} when none)
  reloadPc,            \* reloadSeries: the ipc call it awaits ("none" when not running)
  newSeries,           \* reloadSeries: newSeries ({} when undefined)
  newChapters,         \* reloadSeries: newChapters ({} when undefined)
  oldChapters,         \* reloadSeries: oldChapters
  orphanedChapterIds,  \* reloadSeries: orphanedChapterIds, as passed to removeChapters
  ipcReply,            \* what the last ipc call of reloadSeries came back with
  ret,                 \* how the last reloadSeries call settled: "void", "Error", "rejected"
  thumbnailUpdates,    \* the id of the series, if the last reloadSeries call refreshed its cover
  batches,             \* reloadSeriesList invocations so far
  userOps              \* user operations so far

batchVars ==
  <<reloadingSeriesList, seriesListState, batchPc, seriesList, sortedSeriesList, cur,
    failedToUpdate, toast>>

reloadLocals ==
  <<reloadPc, newSeries, newChapters, oldChapters, orphanedChapterIds, ipcReply, ret,
    thumbnailUpdates>>

reloadVars == <<batchVars, reloadLocals, batches, userOps>>

\* ===================================================== import queue (Spec)
\* importQueueState and importingState are Recoil atoms. A component reads
\* them when it renders; its handlers and effects close over the values of
\* that render until the next one.
VARIABLES
  importQueue,        \* importQueueState
  importing,          \* importingState
  renderedQueue,      \* `importQueue` as captured by the last render
  renderedImporting,  \* `importing` as captured by the last render
  consumerEffectDue,  \* the DashboardPage queue effect of the last render has not run yet
  modalEffectDue,     \* the AddSeriesModal effect of the last render has not run yet
  eventFlushDue,      \* an event handler wrote state: React renders before the next event
  searchResult,       \* searchResultState.seriesList
  showing,            \* the add-series dialog is open
  customSeries,       \* AddSeriesModal customSeries ({} when undefined)
  previewSeries,      \* AddSeriesModal previewSeries ({} when undefined)
  renderedPreview,    \* `previewSeries` as captured by the last render
  imports,            \* the importSeries calls in flight
  nextTid,            \* tasks created so far (the identity of a task object)
  importLog,          \* task ids in the order importSeries was called with them
  coverDownloads,     \* task ids of the imports downloadCover was called after
  navigations         \* task ids of the preview series goToSeries was called with

queueVars ==
  <<importQueue, importing, renderedQueue, renderedImporting, consumerEffectDue,
    modalEffectDue, eventFlushDue, searchResult, showing, customSeries,
    previewSeries, renderedPreview, imports, nextTid, importLog,
    coverDownloads, navigations>>

\* The importSeries call that settled last, for the properties: its task, the
\* series and the chapter list it fetched, what it passed to upsertSeries and
\* upsertChapters and how it settled ({} when no call has settled).
VARIABLE lastImport

callVars == <<lastImport>>

Title(sourceId) == IF sourceId = "1" THEN <<11>> ELSE <<12>>

\* a series as the search lists it
SearchItem(extensionId, sourceId) ==
  [id |-> NoId, extensionId |-> extensionId, sourceId |-> sourceId,
   title |-> Title(sourceId), remoteCoverUrl |-> "search-cover",
   trackerKeys |-> Undefined, categories |-> NoCategories, numberUnread |-> 0,
   preview |-> FALSE]

\* a series as the extension's GET_SERIES returns it
RemoteSeries(extensionId, sourceId) ==
  [id |-> NoId, extensionId |-> extensionId, sourceId |-> sourceId,
   title |-> Title(sourceId) \o <<13>>, remoteCoverUrl |-> "remote-cover",
   trackerKeys |-> Undefined, categories |-> NoCategories, numberUnread |-> 0,
   preview |-> FALSE]

RemoteChapter(sourceId, title, languageKey) ==
  [id |-> NoId, sourceId |-> sourceId, title |-> title, read |-> FALSE,
   languageKey |-> languageKey]

\* the chapter list the extension's GET_CHAPTERS returns for a series
RemoteChapters(sourceId) ==
  IF sourceId = "1"
  THEN <<RemoteChapter("1", <<12, 1, 0>>, "en"), RemoteChapter("2", <<12, 2>>, "fr")>>
  ELSE <<RemoteChapter("1", <<12, 1>>, "en")>>

Task(tid, series, getFirst) == [tid |-> tid, series |-> series, getFirst |-> getFirst]

Tids(queue) == [i \in 1..Len(queue) |-> queue[i].tid]

\* ------------------------------------------------------------ importSeries
isDigit(c) == c \in 0..9

RECURSIVE digitRun(_)
digitRun(s) == IF s # <<>> /\ isDigit(Head(s)) THEN 1 + digitRun(Tail(s)) ELSE 0

RECURSIVE numericValue(_)
numericValue(digits) ==
  IF digits = <<>> THEN 0
  ELSE 10 * numericValue(SubSeq(digits, 1, Len(digits) - 1)) + digits[Len(digits)]

\* the comparison of two titles character by character
codeUnitCompare(a, b) == lexCompare(a, b)

\* a.localeCompare(b, undefined, {numeric: true, sensitivity: 'base'}): runs
\* of digits compare by their numeric value
RECURSIVE naturalCompare(_, _)
naturalCompare(a, b) ==
  IF a = <<>> /\ b = <<>> THEN 0
  ELSE IF a = <<>> THEN -1
  ELSE IF b = <<>> THEN 1
  ELSE IF isDigit(Head(a)) /\ isDigit(Head(b))
       THEN LET na == digitRun(a)
                nb == digitRun(b)
                va == numericValue(SubSeq(a, 1, na))
                vb == numericValue(SubSeq(b, 1, nb))
            IN IF va < vb THEN -1
               ELSE IF va > vb THEN 1
               ELSE naturalCompare(SubSeq(a, na + 1, Len(a)), SubSeq(b, nb + 1, Len(b)))
       ELSE IF Head(a) < Head(b) THEN -1
       ELSE IF Head(a) > Head(b) THEN 1
       ELSE naturalCompare(Tail(a), Tail(b))

RECURSIVE insertChapter(_, _)
insertChapter(sorted, c) ==
  IF sorted = <<>> THEN <<c>>
  ELSE IF naturalCompare(c.title, Head(sorted).title) < 0
       THEN <<c>> \o sorted
       ELSE <<Head(sorted)>> \o insertChapter(Tail(sorted), c)

\* [...chapters].sort(by title, natural order)
RECURSIVE sortedChapters(_)
sortedChapters(chapters) ==
  IF chapters = <<>> THEN <<>>
  ELSE insertChapter(sortedChapters(SubSeq(chapters, 1, Len(chapters) - 1)),
                     chapters[Len(chapters)])

\* the fetched series upserted under its own identifier
seriesToUpsertUnderFetchedId(series, seriesToAdd) ==
  [seriesToAdd EXCEPT
     !.remoteCoverUrl = series.remoteCoverUrl,
     !.categories = IF series.categories = NoCategories THEN {} ELSE series.categories]

\* the fetched series upserted with its own cover and categories
seriesToUpsertAsFetched(series, seriesToAdd) ==
  [seriesToAdd EXCEPT
     !.categories = IF @ = NoCategories THEN {} ELSE @,
     !.id = series.id]

\* lines 117-124: the caller's cover and categories restored, the caller's id kept
seriesToUpsert(series, seriesToAdd) ==
  [seriesToAdd EXCEPT
     !.remoteCoverUrl = series.remoteCoverUrl,
     !.categories = IF series.categories = NoCategories THEN {} ELSE series.categories,
     !.id = series.id]

addedSeries(series, seriesToAdd, fresh) ==
  upsertedSeries(seriesToUpsert(series, seriesToAdd), fresh)

\* the store after importSeries wrote the series, its chapters and its unread
\* count (lines 121-131)
importedSeriesStore(store, chapters, series, seriesToAdd, fetched, languages, fresh) ==
  LET added == addedSeries(series, seriesToAdd, fresh)
      store1 == upsertSeries(store, seriesToUpsert(series, seriesToAdd), fresh)
      chapters1 == upsertChapters(chapters, sortedChapters(fetched), added,
                                  fresh + uuidsForSeries(seriesToUpsert(series, seriesToAdd)))
  IN updateSeriesNumberUnread(store1, chapters1, added, languages)

importedChapterStore(chapters, series, seriesToAdd, fetched, fresh) ==
  upsertChapters(chapters, sortedChapters(fetched), addedSeries(series, seriesToAdd, fresh),
                 fresh + uuidsForSeries(seriesToUpsert(series, seriesToAdd)))

\* ------------------------------------------------- rendering and effects
\* A render captures the atoms; an effect whose dependencies changed is then
\* due. React runs the effects of a render, all in one go, before it renders
\* again, and renders after an event handler's writes before it dispatches
\* the next event; an event or a promise callback can come between a render
\* and its effects, and between an effect's writes and the next render.
uiVars == <<searchResult, showing, customSeries>>
logVars == <<nextTid, importLog, coverDownloads, navigations>>

Render ==
  /\ ~consumerEffectDue /\ ~modalEffectDue
  /\ \/ eventFlushDue
     \/ importQueue # renderedQueue
     \/ importing # renderedImporting
  /\ renderedQueue' = importQueue
  /\ renderedImporting' = importing
  /\ renderedPreview' = previewSeries
  /\ consumerEffectDue' = (importQueue # renderedQueue \/ importing # renderedImporting)
  /\ modalEffectDue' = (importQueue # renderedQueue)
  /\ eventFlushDue' = FALSE
  /\ UNCHANGED <<importQueue, importing, previewSeries, imports>>
  /\ UNCHANGED <<uiVars, logVars, storeVars, reloadVars, callVars>>

\* the guard of the consumer without the test of the flag
mayStartImportIgnoringFlag(flag, queue) == Len(queue) > 0

\* line 262: if (!importing && importQueue.length > 0)
mayStartImport(flag, queue) == ~flag /\ Len(queue) > 0

\* line 265: const task = importQueue[0]
dequeuedTask(queue) == queue[1]

\* line 266: importQueue.slice(1)
remainingQueue(queue) == Tail(queue)

\* importSeries up to its first await (lines 89-106)
startedImport(task) ==
  [task |-> task,
   pc |-> IF task.getFirst THEN "getSeries" ELSE "getChapters",
   seriesToAdd |-> task.series]

\* DashboardPage: useEffect(..., [importQueue, importing]), lines 261-285
ConsumerEffect ==
  IF consumerEffectDue /\ mayStartImport(renderedImporting, renderedQueue)
  THEN /\ importing' = TRUE
       /\ importQueue' = remainingQueue(renderedQueue)
       /\ imports' = imports \cup {startedImport(dequeuedTask(renderedQueue))}
       /\ importLog' = Append(importLog, dequeuedTask(renderedQueue).tid)
  ELSE UNCHANGED <<importing, importQueue, imports, importLog>>

\* AddSeriesModal: useEffect(..., [importQueue]), lines 301-306
AddSeriesModalEffect ==
  IF modalEffectDue /\ renderedPreview # {} /\ ~renderedImporting
  THEN /\ navigations' = navigations \o SetToSeq({s.id : s \in renderedPreview})
       /\ showing' = FALSE
  ELSE UNCHANGED <<navigations, showing>>

\* the effects of the last render, the child's before the parent's
FlushEffects ==
  /\ consumerEffectDue \/ modalEffectDue
  /\ AddSeriesModalEffect
  /\ ConsumerEffect
  /\ consumerEffectDue' = FALSE
  /\ modalEffectDue' = FALSE
  /\ UNCHANGED <<renderedQueue, renderedImporting, renderedPreview, eventFlushDue,
                 searchResult, customSeries, previewSeries, nextTid,
                 coverDownloads>>
  /\ UNCHANGED <<storeVars, reloadVars, callVars>>

\* ---------------------------------------------------------------- producers
\* the result lists a search shows: one of the filesystem extension, one of
\* another extension
SearchResults ==
  {<<SearchItem(FS_METADATA, "2"), SearchItem(FS_METADATA, "1")>>,
   <<SearchItem(EXT, "1")>>}

\* SearchControlBar: the search (lines 176-182) or the directory selection
\* (lines 55-71) fills searchResultState
Search ==
  /\ ~eventFlushDue
  /\ ~showing
  /\ searchResult = <<>>
  /\ nextTid < MaxTasks
  /\ \E list \in SearchResults : searchResult' = list
  /\ UNCHANGED <<importQueue, importing, renderedQueue, renderedImporting,
                 renderedPreview, consumerEffectDue, modalEffectDue, eventFlushDue,
                 showing, customSeries, previewSeries, imports>>
  /\ UNCHANGED <<logVars, storeVars, reloadVars, callVars>>

\* lines 271-299: the details of props.series as GET_SERIES returns them, the
\* cover of the search result kept
seriesDetails(series) ==
  [RemoteSeries(series.extensionId, series.sourceId)
     EXCEPT !.remoteCoverUrl = series.remoteCoverUrl]

\* SearchGrid.handleOpenAddModal (lines 49-53) and the AddSeriesModal effect
\* that retrieves the details of props.series (lines 271-299)
OpenAddModal ==
  /\ ~eventFlushDue
  /\ ~showing
  /\ nextTid < MaxTasks
  /\ \E i \in 1..Len(searchResult) :
       customSeries' = {seriesDetails(searchResult[i])}
  /\ showing' = TRUE
  /\ UNCHANGED <<importQueue, importing, renderedQueue, renderedImporting,
                 renderedPreview, consumerEffectDue, modalEffectDue, eventFlushDue,
                 searchResult, previewSeries, imports>>
  /\ UNCHANGED <<logVars, storeVars, reloadVars, callVars>>

\* seriesMatches / the filter of handleAdd: by id when both have one, else by
\* (sourceId, extensionId, title)
seriesMatches(a, b) ==
  IF a.id # NoId /\ b.id # NoId THEN a.id = b.id
  ELSE a.sourceId = b.sourceId /\ a.extensionId = b.extensionId /\ a.title = b.title

\* line 310: setImportQueue([...importQueue, {series: customSeries, getFirst: false}])
\* (line 338 alike): the captured queue with the task added
queueAfterAdd(captured, current, task) == Append(captured, task)

\* AddSeriesModal.handleAdd, lines 308-332
handleAdd ==
  /\ ~eventFlushDue
  /\ showing
  /\ nextTid < MaxTasks
  /\ \E series \in customSeries :
       /\ importQueue' = queueAfterAdd(renderedQueue, importQueue,
                                       Task(nextTid + 1, series, FALSE))
       /\ searchResult' = SelectSeq(searchResult, LAMBDA s : ~seriesMatches(series, s))
  /\ showing' = FALSE
  /\ nextTid' = nextTid + 1
  /\ eventFlushDue' = TRUE
  /\ UNCHANGED <<importing, renderedQueue, renderedImporting, renderedPreview,
                 consumerEffectDue, modalEffectDue, customSeries, previewSeries,
                 imports, importLog, coverDownloads, navigations>>
  /\ UNCHANGED <<storeVars, reloadVars, callVars>>

\* line 336: { ...customSeries, id: uuidv4(), preview: true }
tempPreviewSeries(series, uuid) == [series EXCEPT !.id = uuid, !.preview = TRUE]

\* AddSeriesModal.handlePreview, lines 334-340
handlePreview ==
  /\ ~eventFlushDue
  /\ showing
  /\ nextTid < MaxTasks
  /\ \E series \in customSeries :
       /\ previewSeries' = {tempPreviewSeries(series, nextUuid)}
       /\ importQueue' = queueAfterAdd(renderedQueue, importQueue,
                                       Task(nextTid + 1, tempPreviewSeries(series, nextUuid),
                                            FALSE))
  /\ nextUuid' = nextUuid + 1
  /\ nextTid' = nextTid + 1
  /\ eventFlushDue' = TRUE
  /\ UNCHANGED <<importing, renderedQueue, renderedImporting, renderedPreview,
                 consumerEffectDue, modalEffectDue, searchResult, showing,
                 customSeries, imports, importLog, coverDownloads,
                 navigations>>
  /\ UNCHANGED <<seriesStore, chapterStore, chapterLanguages, reloadVars, callVars>>

\* lines 82-92: one task per series of the result, the selected category applied
toAdd(list, selectedCategoryId, firstTid) ==
  [i \in 1..Len(list) |->
     Task(firstTid + i,
          [list[i] EXCEPT !.categories =
             IF selectedCategoryId # Undefined THEN {selectedCategoryId} ELSE @],
          TRUE)]

\* line 96: setImportQueue((prev) => [...prev, ...toAdd])
queueAfterSaveAll(captured, current, tasks) == current \o tasks

\* SearchControlBar.handleSaveAllDirectory, lines 76-111; the button is part
\* of the filesystem controls (line 226)
handleSaveAllDirectory ==
  /\ ~eventFlushDue
  /\ ~showing
  /\ Len(searchResult) > 0
  /\ searchResult[1].extensionId = FS_METADATA
  /\ nextTid + Len(searchResult) <= MaxTasks
  /\ \E selectedCategoryId \in Categories \cup {Undefined} :
       importQueue' = queueAfterSaveAll(renderedQueue, importQueue,
                                        toAdd(searchResult, selectedCategoryId, nextTid))
  /\ searchResult' =
       SelectSeq(searchResult,
                 LAMBDA x : ~\E i \in 1..Len(searchResult) : seriesMatches(x, searchResult[i]))
  /\ nextTid' = nextTid + Len(searchResult)
  /\ eventFlushDue' = TRUE
  /\ UNCHANGED <<importing, renderedQueue, renderedImporting, renderedPreview,
                 consumerEffectDue, modalEffectDue, showing, customSeries,
                 previewSeries, imports, importLog, coverDownloads,
                 navigations>>
  /\ UNCHANGED <<storeVars, reloadVars, callVars>>

\* ------------------------------------------------- the imports in flight
\* The library service is outside this specification: an importSeries call
\* is followed from the call to the settling of its promise, which is what
\* the consumer waits for.

\* .catch of the consumer (lines 278-282)
importRejected(imp) ==
  /\ importing' = FALSE
  /\ imports' = imports \ {imp}
  /\ UNCHANGED coverDownloads

\* .then of the consumer (lines 270-277)
importResolved(imp) ==
  /\ importing' = FALSE
  /\ imports' = imports \ {imp}
  /\ coverDownloads' =
       IF ~imp.task.series.preview
       THEN coverDownloads \cup {imp.task.tid}
       ELSE coverDownloads

\* importSeries resumes from `await GET_SERIES` (lines 93-100); reading
\* seriesToAdd.extensionId of `undefined` throws inside the try
ImportGetSeriesReturns ==
  /\ \E imp \in imports, outcome \in IpcOutcomes :
       /\ imp.pc = "getSeries"
       /\ IF outcome = "value"
          THEN /\ imports' =
                    (imports \ {imp}) \cup
                      {[imp EXCEPT
                          !.pc = "getChapters",
                          !.seriesToAdd = RemoteSeries(imp.task.series.extensionId,
                                                       imp.task.series.sourceId)]}
               /\ UNCHANGED <<importing, coverDownloads>>
          ELSE importRejected(imp)
  /\ UNCHANGED <<importQueue, renderedQueue, renderedImporting, renderedPreview,
                 consumerEffectDue, modalEffectDue, eventFlushDue, previewSeries,
                 nextTid, importLog, navigations>>
  /\ UNCHANGED <<uiVars, storeVars, reloadVars, callVars>>

\* importSeries resumes from `await GET_CHAPTERS` and runs to its end
\* (lines 102-138): a rejection is rethrown, and `[...chapters]` of
\* `undefined` throws
ImportGetChaptersReturns ==
  /\ \E imp \in imports, outcome \in IpcOutcomes :
       /\ imp.pc = "getChapters"
       /\ IF outcome = "value" THEN importResolved(imp) ELSE importRejected(imp)
  /\ UNCHANGED <<importQueue, renderedQueue, renderedImporting, renderedPreview,
                 consumerEffectDue, modalEffectDue, eventFlushDue, previewSeries,
                 nextTid, importLog, navigations>>
  /\ UNCHANGED <<uiVars, storeVars, reloadVars, callVars>>

\* ================================================== reload (ReloadSpec)
\* ------------------------------------------------------------ reloadSeries
\* what GET_SERIES answers for a stored series: the series with its title
\* and cover changed at the source
FetchedSeries(extensionId, sourceId) ==
  {[RemoteSeries(extensionId, sourceId) EXCEPT
      !.title = Title(sourceId) \o <<14>>, !.remoteCoverUrl = "new-cover"]}

\* what GET_CHAPTERS can answer: both chapters; one chapter left, renamed to
\* the title of the other; one source identifier twice; a new chapter under
\* the title of a stored one
FetchedChapterLists ==
  {<<RemoteChapter("1", <<12, 1, 0>>, "en"), RemoteChapter("2", <<12, 2>>, "fr")>>,
   <<RemoteChapter("1", <<12, 2>>, "en")>>,
   <<RemoteChapter("1", <<12, 1, 0>>, "en"), RemoteChapter("1", <<12, 1>>, "en")>>,
   <<RemoteChapter("3", <<12, 1>>, "en")>>}

\* lines 195-201: a filesystem series keeps the caller's record, any other
\* takes the fetched one with the caller's id, trackerKeys and categories
reloadedSeries(series, fetched) ==
  IF series.extensionId = FS_METADATA
  THEN series
  ELSE [fetched EXCEPT
          !.id = series.id,
          !.trackerKeys = series.trackerKeys,
          !.categories = series.categories]

\* the test of a stored chapter against a fetched one by its title
isMatchingChapterByTitle(c, chapter) == c.title = chapter.title

\* line 209: (c) => c.sourceId === chapter.sourceId
isMatchingChapter(c, chapter) == c.sourceId = chapter.sourceId

\* lines 208-210: oldChapters.find(...), as the index of the first match (0
\* when there is none)
matchingChapter(old, chapter) ==
  IF \E i \in 1..Len(old) : isMatchingChapter(old[i], chapter)
  THEN CHOOSE i \in 1..Len(old) :
         /\ isMatchingChapter(old[i], chapter)
         /\ \A j \in 1..(i - 1) : ~isMatchingChapter(old[j], chapter)
  ELSE 0

\* Array.prototype.indexOf: the index from 0 of the first occurrence, or -1
indexOf(list, x) ==
  IF \E i \in 1..Len(list) : list[i] = x
  THEN (CHOOSE i \in 1..Len(list) :
          list[i] = x /\ \A j \in 1..(i - 1) : list[j] # x) - 1
  ELSE -1

\* Array.prototype.splice(start, 1): a negative start counts from the end
splice(list, start) ==
  LET from == IF start < 0
              THEN (IF Len(list) + start < 0 THEN 0 ELSE Len(list) + start)
              ELSE (IF start > Len(list) THEN Len(list) ELSE start)
  IN SubSeq(list, 1, from) \o SubSeq(list, from + 2, Len(list))

\* lines 212-213: chapter.id = matchingChapter.id; chapter.read = matchingChapter.read
mergedChapter(chapter, matching) ==
  [chapter EXCEPT !.id = matching.id, !.read = matching.read]

\* lines 207-218, one fetched chapter at a time: the chapters to write and
\* what is left of orphanedChapterIds
RECURSIVE reconcile(_, _, _)
reconcile(old, fetched, orphans) ==
  IF fetched = <<>>
  THEN [chapters |-> <<>>, orphanedChapterIds |-> orphans]
  ELSE LET chapter == Head(fetched)
           m == matchingChapter(old, chapter)
           matched == m # 0 /\ old[m].id # NoId
           merged == IF matched THEN mergedChapter(chapter, old[m]) ELSE chapter
           left == IF matched
                   THEN splice(orphans, indexOf(orphans, old[m].id))
                   ELSE orphans
           rest == reconcile(old, Tail(fetched), left)
       IN [chapters |-> <<merged>> \o rest.chapters,
           orphanedChapterIds |-> rest.orphanedChapterIds]

\* lines 204-205
chapterIds(old) == [i \in 1..Len(old) |-> old[i].id]

\* lines 220-226: the stores after reloadSeries wrote
reloadedChapterStore(chapters, series, fetchedSeries, fetchedChapters, fresh) ==
  LET ns == reloadedSeries(series, fetchedSeries)
      old == fetchChapters(chapters, series.id)
      rec == reconcile(old, fetchedChapters, chapterIds(old))
      upserted == upsertChapters(chapters, rec.chapters, ns, fresh)
  IN IF Len(rec.orphanedChapterIds) > 0 /\ ns.id # NoId
     THEN removeChapters(upserted, rec.orphanedChapterIds, ns.id)
     ELSE upserted

reloadedSeriesStore(store, chapters, series, fetchedSeries, fetchedChapters, languages, fresh) ==
  LET ns == reloadedSeries(series, fetchedSeries)
  IN updateSeriesNumberUnread(
       upsertSeries(store, ns, NoId),
       reloadedChapterStore(chapters, series, fetchedSeries, fetchedChapters, fresh),
       ns, languages)

\* ------------------------------------------------------- reloadSeriesList
\* lines 170-172 in the loop of lines 262-271: a series without id fails at
\* once, and the loop goes on to the next
RECURSIVE skipUnidentified(_, _, _)
skipUnidentified(list, c, failed) ==
  IF c < Len(list) /\ list[c + 1].id = NoId
  THEN skipUnidentified(list, c + 1, Append(failed, list[c + 1]))
  ELSE [cur |-> c, failedToUpdate |-> failed]

\* lines 274-287
summary(c, failed, list) ==
  IF c = 1 /\ Len(failed) > 0
  THEN [title |-> "Library refresh failed", count |-> 0, series |-> list[1].title]
  ELSE IF Len(failed) > 0
       THEN [title |-> "Library refreshed with errors", count |-> Len(failed), series |-> <<>>]
       ELSE [title |-> "Library refreshed", count |-> c, series |-> <<>>]

\* the loop from the series after `c`, up to the next ipc call or, past the
\* last series, to the end of reloadSeriesList (lines 262-289)
continueBatch(caller, list, c, failed, storeAfter) ==
  LET next == skipUnidentified(list, c, failed)
  IN /\ cur' = next.cur
     /\ failedToUpdate' = next.failedToUpdate
     /\ IF next.cur < Len(list)
        THEN /\ reloadPc' = "getExtension"
             /\ batchPc' = "running"
             /\ reloadingSeriesList' = TRUE
             /\ UNCHANGED <<seriesListState, toast>>
        ELSE /\ reloadPc' = "none"
             /\ batchPc' = "done"
             /\ seriesListState' = fetchSeriesList(storeAfter)
             /\ toast' = {summary(next.cur, next.failedToUpdate, caller)}
             /\ reloadingSeriesList' = FALSE

\* lines 248-262: the flag set, a new toast, and the loop from the first series
startBatch(caller, list, storeNow) ==
  LET next == skipUnidentified(list, 0, <<>>)
  IN /\ cur' = next.cur
     /\ failedToUpdate' = next.failedToUpdate
     /\ IF next.cur < Len(list)
        THEN /\ reloadPc' = "getExtension"
             /\ batchPc' = "running"
             /\ reloadingSeriesList' = TRUE
             /\ toast' = {}
             /\ UNCHANGED seriesListState
        ELSE /\ reloadPc' = "none"
             /\ batchPc' = "done"
             /\ seriesListState' = fetchSeriesList(storeNow)
             /\ toast' = {summary(next.cur, next.failedToUpdate, caller)}
             /\ reloadingSeriesList' = FALSE

\* `await reloadSeries(...)` came back with a value (lines 265-270)
reloadReturned(value, storeAfter) ==
  /\ ret' = value
  /\ continueBatch(seriesList, sortedSeriesList, cur + 1,
                   IF value = "Error"
                   THEN Append(failedToUpdate, sortedSeriesList[cur + 1])
                   ELSE failedToUpdate,
                   storeAfter)

\* reloadSeries rejected: the await of line 265 throws out of reloadSeriesList
reloadRejected ==
  /\ ret' = "rejected"
  /\ reloadPc' = "none"
  /\ batchPc' = "rejected"
  /\ UNCHANGED <<reloadingSeriesList, seriesListState, cur, failedToUpdate, toast>>

\* the series the running reloadSeries call was given
reloading == sortedSeriesList[cur + 1]

loopVars == <<reloadingSeriesList, seriesListState, batchPc, cur, failedToUpdate, toast>>

\* the locals of a reloadSeries call that is not running
noLocals ==
  /\ newSeries' = {}
  /\ newChapters' = {}
  /\ oldChapters' = <<>>
  /\ orphanedChapterIds' = <<>>

\* the lists reloadSeriesList is called with: the stored library (as in
\* DashboardPage, SearchGrid.tsx line 251) or one series of it
CallerLists(store) == {fetchSeriesList(store)} \cup {<<s>> : s \in store}

\* reloadSeriesList, lines 240-262, up to the first ipc call of the first
\* reloadSeries (or to its end, if there is no series to reload)
reloadSeriesList ==
  /\ batchPc # "running"
  /\ batches < MaxBatches
  /\ \E list \in CallerLists(seriesStore) :
       /\ seriesList' = list
       /\ sortedSeriesList' = sortByTitle(list)
       /\ startBatch(list, sortByTitle(list), seriesStore)
  /\ batches' = batches + 1
  /\ noLocals
  /\ ipcReply' = "none"
  /\ ret' = "none"
  /\ UNCHANGED <<thumbnailUpdates, userOps>>
  /\ UNCHANGED <<storeVars, queueVars, callVars>>

\* reloadSeries resumes from `await EXTENSION_MANAGER.GET` (lines 174-178)
ReloadGetExtensionReturns ==
  /\ reloadPc = "getExtension"
  /\ \E outcome \in IpcOutcomes :
       /\ ipcReply' = outcome
       /\ CASE outcome = "value" ->
                 /\ reloadPc' = "getSeries"
                 /\ UNCHANGED <<loopVars, ret>>
            [] outcome = "undefined" -> reloadReturned("Error", seriesStore)
            [] outcome = "thrown" -> reloadRejected
  /\ UNCHANGED <<seriesList, sortedSeriesList, newSeries, newChapters, oldChapters,
                 orphanedChapterIds, thumbnailUpdates, batches, userOps>>
  /\ UNCHANGED <<storeVars, queueVars, callVars>>

\* reloadSeries resumes from `await GET_SERIES` (lines 180-186)
ReloadGetSeriesReturns ==
  /\ reloadPc = "getSeries"
  /\ \E outcome \in IpcOutcomes :
       /\ ipcReply' = outcome
       /\ CASE outcome = "value" ->
                 /\ \E fetched \in FetchedSeries(reloading.extensionId, reloading.sourceId) :
                      newSeries' = {fetched}
                 /\ reloadPc' = "getChapters"
                 /\ UNCHANGED <<loopVars, ret>>
            [] outcome = "undefined" ->
                 /\ newSeries' = {}
                 /\ reloadReturned("Error", seriesStore)
            [] outcome = "thrown" ->
                 /\ newSeries' = {}
                 /\ reloadRejected
  /\ UNCHANGED <<seriesList, sortedSeriesList, newChapters, oldChapters,
                 orphanedChapterIds, thumbnailUpdates, batches, userOps>>
  /\ UNCHANGED <<storeVars, queueVars, callVars>>

\* reloadSeries resumes from `await GET_CHAPTERS` and runs to its next await
\* (lines 188-230): it reconciles and writes; `newChapters.map` of
\* `undefined` throws a TypeError (line 207)
ReloadGetChaptersReturns ==
  /\ reloadPc = "getChapters"
  /\ \E outcome \in IpcOutcomes :
       /\ ipcReply' = outcome
       /\ CASE outcome = "value" ->
                 \E list \in FetchedChapterLists, fetched \in newSeries :
                   LET old == fetchChapters(chapterStore, reloading.id)
                       rec == reconcile(old, list, chapterIds(old))
                   IN /\ newChapters' = {list}
                      /\ newSeries' = {reloadedSeries(reloading, fetched)}
                      /\ oldChapters' = old
                      /\ orphanedChapterIds' = rec.orphanedChapterIds
                      /\ seriesStore' =
                           reloadedSeriesStore(seriesStore, chapterStore, reloading, fetched,
                                               list, chapterLanguages, nextUuid)
                      /\ chapterStore' =
                           reloadedChapterStore(chapterStore, reloading, fetched, list, nextUuid)
                      /\ nextUuid' = nextUuid + uuidsForChapters(rec.chapters)
                      /\ reloadPc' = "getThumbnailPath"
                      /\ UNCHANGED <<loopVars, ret>>
            [] outcome \in {"undefined", "thrown"} ->
                 /\ noLocals
                 /\ reloadRejected
                 /\ UNCHANGED <<seriesStore, chapterStore, nextUuid>>
  /\ UNCHANGED <<seriesList, sortedSeriesList, thumbnailUpdates, batches, userOps,
                 chapterLanguages>>
  /\ UNCHANGED <<queueVars, callVars>>

\* What `await GET_THUMBNAIL_PATH` can come back with (line 230), together
\* with what fs.existsSync says of a path it names (line 232): no path, the
\* path of an existing file, a path at which there is no file, or a rejection
ThumbnailPaths == {"null", "file", "no file", "thrown"}

\* reloadSeries resumes from `await GET_THUMBNAIL_PATH` and returns (lines
\* 230-238)
ReloadGetThumbnailPathReturns ==
  /\ reloadPc = "getThumbnailPath"
  /\ \E thumbnailPath \in ThumbnailPaths :
       /\ ipcReply' = thumbnailPath
       /\ IF thumbnailPath = "thrown"
          THEN /\ reloadRejected
               /\ UNCHANGED thumbnailUpdates
          ELSE /\ thumbnailUpdates' =
                    IF /\ thumbnailPath # "null"
                       /\ \E ns \in newSeries :
                            \/ ns.remoteCoverUrl # reloading.remoteCoverUrl
                            \/ thumbnailPath = "no file"
                    THEN {ns.id : ns \in newSeries}
                    ELSE {}
               /\ reloadReturned("void", seriesStore)
  /\ noLocals
  /\ UNCHANGED <<seriesList, sortedSeriesList, batches, userOps>>
  /\ UNCHANGED <<storeVars, queueVars, callVars>>

\* ------------------------------------------------------- user operations
\* updateSeriesTrackerKeys (lines 299-304), with the series as stored
updateSeriesTrackerKeys ==
  /\ userOps < MaxUserOps
  /\ \E series \in seriesStore, trackerKeys \in TrackerKeys :
       /\ trackerKeys # series.trackerKeys
       /\ seriesStore' =
            upsertSeries(seriesStore, [series EXCEPT !.trackerKeys = trackerKeys], NoId)
  /\ userOps' = userOps + 1
  /\ UNCHANGED <<chapterStore, nextUuid, chapterLanguages>>
  /\ UNCHANGED <<batchVars, reloadLocals, batches, queueVars, callVars>>

\* updateSeries (lines 293-296), with the categories of the stored series edited
updateSeries ==
  /\ userOps < MaxUserOps
  /\ \E series \in seriesStore, categories \in SUBSET Categories :
       /\ categories # series.categories
       /\ seriesStore' =
            upsertSeries(seriesStore, [series EXCEPT !.categories = categories], NoId)
  /\ userOps' = userOps + 1
  /\ UNCHANGED <<chapterStore, nextUuid, chapterLanguages>>
  /\ UNCHANGED <<batchVars, reloadLocals, batches, queueVars, callVars>>

\* line 151: chapters.map((chapter) => ({ ...chapter, read }))
markedChapters(chapters, read) ==
  [i \in 1..Len(chapters) |-> [chapters[i] EXCEPT !.read = read]]

\* markChapters (lines 142-157), for all the stored chapters of a series
\* (n = 0) or for one of them
markChapters ==
  /\ userOps < MaxUserOps
  /\ \E series \in seriesStore, read \in BOOLEAN :
     \E n \in 0..Len(fetchChapters(chapterStore, series.id)) :
       LET stored == fetchChapters(chapterStore, series.id)
           chapters == IF n = 0 THEN stored ELSE SubSeq(stored, n, n)
           written == upsertChapters(chapterStore, markedChapters(chapters, read),
                                     series, nextUuid)
       IN /\ Len(stored) >= 1
          /\ \E i \in 1..Len(chapters) : chapters[i].read # read
          /\ series.id # NoId
          /\ chapterStore' = written
          /\ seriesStore' =
               updateSeriesNumberUnread(seriesStore, written, series, chapterLanguages)
  /\ userOps' = userOps + 1
  /\ UNCHANGED <<nextUuid, chapterLanguages>>
  /\ UNCHANGED <<batchVars, reloadLocals, batches, queueVars, callVars>>

\* removeSeries (lines 53-59)
removeSeries ==
  /\ userOps < MaxUserOps
  /\ \E series \in seriesStore :
       /\ series.id # NoId
       /\ seriesStore' = removeSeriesFromStore(seriesStore, series.id)
       /\ chapterStore' = removeSeriesChapters(chapterStore, series.id)
       /\ seriesListState' = fetchSeriesList(removeSeriesFromStore(seriesStore, series.id))
  /\ userOps' = userOps + 1
  /\ UNCHANGED <<nextUuid, chapterLanguages>>
  /\ UNCHANGED <<reloadingSeriesList, batchPc, seriesList, sortedSeriesList, cur,
                 failedToUpdate, toast>>
  /\ UNCHANGED <<reloadLocals, batches, queueVars, callVars>>

\* ================================================ importSeries (ImportSpec)
\* The consumer's import of one task at a time against the library service:
\* the call of importSeries, what it fetches, what it writes and how it
\* settles.

\* what GET_SERIES answers to importSeries: the series of the source, under
\* no identifier or under one of the source's own
ImportFetchedSeries(extensionId, sourceId) ==
  {RemoteSeries(extensionId, sourceId),
   [RemoteSeries(extensionId, sourceId) EXCEPT !.id = 99]}

\* what GET_CHAPTERS answers to importSeries: the chapters of the series, or
\* the chapters "10", "2" and "1" in that order
ImportFetchedChapters(sourceId) ==
  {RemoteChapters(sourceId),
   <<RemoteChapter("1", <<12, 1, 0>>, "en"), RemoteChapter("2", <<12, 2>>, "fr"),
     RemoteChapter("3", <<12, 1>>, "en")>>}

\* the tasks the consumer is handed: those of handleSaveAllDirectory (for a
\* filesystem series, with or without a category), of handleAdd and of
\* handlePreview, and a stored series imported again under its identifier
ImportTasks(tid, uuid, store) ==
  LET items == UNION {Range(list) : list \in SearchResults}
  IN {toAdd(<<item>>, category, tid - 1)[1] :
        item \in {i \in items : i.extensionId = FS_METADATA},
        category \in Categories \cup {Undefined}}
     \cup {Task(tid, seriesDetails(item), FALSE) : item \in items}
     \cup {Task(tid, tempPreviewSeries(seriesDetails(item), uuid), FALSE) : item \in items}
     \cup {Task(tid, series, getFirst) : series \in store, getFirst \in BOOLEAN}

\* how an importSeries call settled
settledImport(imp, status, seriesToAdd, chapters, upserted, added, replaced) ==
  [task |-> imp.task, status |-> status, seriesToAdd |-> seriesToAdd,
   chapters |-> chapters, upserted |-> upserted, added |-> added,
   replaced |-> replaced]

\* The list the consumer's then would publish had it read the library before
\* the import wrote to it
listReadBeforeImport(storeBefore, storeAfter) == fetchSeriesList(storeBefore)

\* The list the consumer's then publishes: setSeriesList(library.fetchSeriesList())
\* (SearchGrid.tsx line 272), read after importSeries has resolved
listReadAfterImport(storeBefore, storeAfter) == fetchSeriesList(storeAfter)

\* the consumer (SearchGrid.tsx lines 264-269) with the task it took from the
\* queue, and importSeries up to its first await (lines 72-106)
importSeries ==
  /\ imports = {}
  /\ nextTid < MaxImports
  /\ \E task \in ImportTasks(nextTid + 1, nextUuid, seriesStore) :
       /\ imports' = {startedImport(task)}
       /\ importLog' = Append(importLog, task.tid)
       /\ nextUuid' = IF task.series.id = nextUuid THEN nextUuid + 1 ELSE nextUuid
  /\ importing' = TRUE
  /\ nextTid' = nextTid + 1
  /\ UNCHANGED <<importQueue, renderedQueue, renderedImporting, renderedPreview,
                 consumerEffectDue, modalEffectDue, eventFlushDue, previewSeries,
                 coverDownloads, navigations>>
  /\ UNCHANGED <<uiVars, seriesStore, chapterStore, chapterLanguages, reloadVars, callVars>>

\* importSeries resumes from `await GET_SERIES` (lines 93-100) and goes on to
\* `await GET_CHAPTERS`; a rejection is rethrown (lines 108-115), and reading
\* seriesToAdd.extensionId of `undefined` throws inside the try
GetSeriesReturnsToImport ==
  /\ \E imp \in imports, outcome \in IpcOutcomes :
       /\ imp.pc = "getSeries"
       /\ IF outcome = "value"
          THEN /\ \E fetched \in ImportFetchedSeries(imp.task.series.extensionId,
                                                     imp.task.series.sourceId) :
                    imports' = {[imp EXCEPT !.pc = "getChapters", !.seriesToAdd = fetched]}
               /\ UNCHANGED <<importing, coverDownloads, lastImport>>
          ELSE /\ importRejected(imp)
               /\ lastImport' = {settledImport(imp, "rejected", {}, {}, <<>>, {}, FALSE)}
  /\ UNCHANGED <<importQueue, renderedQueue, renderedImporting, renderedPreview,
                 consumerEffectDue, modalEffectDue, eventFlushDue, previewSeries,
                 nextTid, importLog, navigations>>
  /\ UNCHANGED <<uiVars, storeVars, reloadVars>>

\* importSeries resumes from `await GET_CHAPTERS` and runs to its end (lines
\* 102-138), and the consumer's then or catch follows (SearchGrid.tsx lines
\* 270-282). A rejection is rethrown before anything is written; with
\* `undefined` for the chapters the series is upserted (line 121) and
\* `[...chapters]` then throws (line 127)
GetChaptersReturnsToImport ==
  /\ \E imp \in imports, outcome \in IpcOutcomes :
       LET series == imp.task.series
           upsert == seriesToUpsert(series, imp.seriesToAdd)
           replaced == fetchSeries(seriesStore, upsert.id) # {}
       IN /\ imp.pc = "getChapters"
          /\ CASE outcome = "value" ->
                    \E fetched \in ImportFetchedChapters(imp.seriesToAdd.sourceId) :
                      /\ seriesStore' =
                           importedSeriesStore(seriesStore, chapterStore, series,
                                               imp.seriesToAdd, fetched, chapterLanguages,
                                               nextUuid)
                      /\ chapterStore' =
                           importedChapterStore(chapterStore, series, imp.seriesToAdd,
                                                fetched, nextUuid)
                      /\ nextUuid' = nextUuid + uuidsForSeries(upsert) + uuidsForChapters(fetched)
                      /\ seriesListState' = listReadAfterImport(seriesStore, seriesStore')
                      /\ importResolved(imp)
                      /\ lastImport' =
                           {settledImport(imp, "resolved", {imp.seriesToAdd}, {fetched},
                                          sortedChapters(fetched),
                                          {addedSeries(series, imp.seriesToAdd, nextUuid)},
                                          replaced)}
               [] outcome = "undefined" ->
                    /\ seriesStore' = upsertSeries(seriesStore, upsert, nextUuid)
                    /\ nextUuid' = nextUuid + uuidsForSeries(upsert)
                    /\ UNCHANGED <<chapterStore, seriesListState>>
                    /\ importRejected(imp)
                    /\ lastImport' =
                         {settledImport(imp, "rejected", {imp.seriesToAdd}, {}, <<>>,
                                        {addedSeries(series, imp.seriesToAdd, nextUuid)},
                                        replaced)}
               [] outcome = "thrown" ->
                    /\ UNCHANGED <<seriesStore, chapterStore, nextUuid, seriesListState>>
                    /\ importRejected(imp)
                    /\ lastImport' =
                         {settledImport(imp, "rejected", {imp.seriesToAdd}, {}, <<>>, {}, FALSE)}
  /\ UNCHANGED <<importQueue, renderedQueue, renderedImporting, renderedPreview,
                 consumerEffectDue, modalEffectDue, eventFlushDue, previewSeries,
                 nextTid, importLog, navigations>>
  /\ UNCHANGED <<uiVars, chapterLanguages>>
  /\ UNCHANGED <<reloadingSeriesList, batchPc, seriesList, sortedSeriesList, cur,
                 failedToUpdate, toast, reloadLocals, batches, userOps>>

\* ------------------------------------------------------------ specification
EmptyChapterStore == [id \in {} |-> <<>>]

QueueInit ==
  /\ importQueue = <<>>
  /\ importing = FALSE
  /\ renderedQueue = <<>>
  /\ renderedImporting = FALSE
  /\ renderedPreview = {}
  /\ consumerEffectDue = FALSE
  /\ modalEffectDue = FALSE
  /\ eventFlushDue = FALSE
  /\ searchResult = <<>>
  /\ showing = FALSE
  /\ customSeries = {}
  /\ previewSeries = {}
  /\ imports = {}
  /\ nextTid = 0
  /\ importLog = <<>>
  /\ coverDownloads = {}
  /\ navigations = <<>>
  /\ lastImport = {}

NoReload ==
  /\ reloadingSeriesList = FALSE
  /\ batchPc = "idle"
  /\ seriesList = <<>>
  /\ sortedSeriesList = <<>>
  /\ cur = 0
  /\ failedToUpdate = <<>>
  /\ toast = {}
  /\ reloadPc = "none"
  /\ newSeries = {}
  /\ newChapters = {}
  /\ oldChapters = <<>>
  /\ orphanedChapterIds = <<>>
  /\ ipcReply = "none"
  /\ ret = "none"
  /\ thumbnailUpdates = {}
  /\ batches = 0
  /\ userOps = 0

\* the application starts with an empty library
Init ==
  /\ QueueInit
  /\ NoReload
  /\ seriesStore = {}
  /\ chapterStore = EmptyChapterStore
  /\ seriesListState = <<>>
  /\ nextUuid = 1
  /\ chapterLanguages = {"en"}

Next ==
  \/ Render
  \/ FlushEffects
  \/ Search
  \/ OpenAddModal
  \/ handleAdd
  \/ handlePreview
  \/ handleSaveAllDirectory
  \/ ImportGetSeriesReturns
  \/ ImportGetChaptersReturns

\* The library a reload starts from: the filesystem series "2" imported by
\* `save all` into category c1, the series "1" of another extension imported
\* from the dialog, its tracker key set and its chapter "1" marked read.
FsImported == [SearchItem(FS_METADATA, "2") EXCEPT !.categories = {"c1"}]

ExtImported == [RemoteSeries(EXT, "1") EXCEPT !.remoteCoverUrl = "search-cover"]

LibrarySeries ==
  LET s1 == importedSeriesStore({}, EmptyChapterStore, FsImported,
                                RemoteSeries(FS_METADATA, "2"), RemoteChapters("2"), {"en"}, 1)
      c1 == importedChapterStore(EmptyChapterStore, FsImported,
                                 RemoteSeries(FS_METADATA, "2"), RemoteChapters("2"), 1)
      s2 == importedSeriesStore(s1, c1, ExtImported, ExtImported, RemoteChapters("1"), {"en"}, 3)
      c2 == importedChapterStore(c1, ExtImported, ExtImported, RemoteChapters("1"), 3)
      ext == CHOOSE s \in s2 : s.extensionId = EXT
      s3 == upsertSeries(s2, [ext EXCEPT !.trackerKeys = "k0"], NoId)
      c3 == upsertChapters(c2, markedChapters(SubSeq(fetchChapters(c2, ext.id), 2, 2), TRUE),
                           ext, 6)
  IN updateSeriesNumberUnread(s3, c3, CHOOSE s \in s3 : s.extensionId = EXT, {"en"})

LibraryChapters ==
  LET c1 == importedChapterStore(EmptyChapterStore, FsImported,
                                 RemoteSeries(FS_METADATA, "2"), RemoteChapters("2"), 1)
      c2 == importedChapterStore(c1, ExtImported, ExtImported, RemoteChapters("1"), 3)
      ext == CHOOSE s \in LibrarySeries : s.extensionId = EXT
  IN upsertChapters(c2, markedChapters(SubSeq(fetchChapters(c2, ext.id), 2, 2), TRUE),
                    ext, 6)

ReloadInit ==
  /\ QueueInit
  /\ NoReload
  /\ seriesStore = LibrarySeries
  /\ chapterStore = LibraryChapters
  /\ seriesListState = fetchSeriesList(LibrarySeries)
  /\ nextUuid = 6
  /\ chapterLanguages = {"en"}

ReloadNext ==
  \/ reloadSeriesList
  \/ ReloadGetExtensionReturns
  \/ ReloadGetSeriesReturns
  \/ ReloadGetChaptersReturns
  \/ ReloadGetThumbnailPathReturns
  \/ updateSeriesTrackerKeys
  \/ updateSeries
  \/ markChapters
  \/ removeSeries

\* The library the imports start from is the one a reload starts from; the
\* language setting is the language of the first chapters or no language.
ImportInit ==
  /\ QueueInit
  /\ NoReload
  /\ seriesStore = LibrarySeries
  /\ chapterStore = LibraryChapters
  /\ seriesListState = fetchSeriesList(LibrarySeries)
  /\ nextUuid = 6
  /\ chapterLanguages \in {{"en"}, {}}

ImportNext ==
  \/ importSeries
  \/ GetSeriesReturnsToImport
  \/ GetChaptersReturnsToImport

vars == <<queueVars, storeVars, reloadVars, callVars>>

ImportSpec == ImportInit /\ [][ImportNext]_vars

\* The library after the stored series of the other extension was imported
\* again under its identifier: importSeries stored its chapters a second time
ReimportedSeries ==
  LET ext == CHOOSE s \in LibrarySeries : s.extensionId = EXT
  IN importedSeriesStore(LibrarySeries, LibraryChapters, ext, ext, RemoteChapters("1"),
                         {"en"}, 6)

ReimportedChapters ==
  LET ext == CHOOSE s \in LibrarySeries : s.extensionId = EXT
  IN importedChapterStore(LibraryChapters, ext, ext, RemoteChapters("1"), 6)

\* A reload of the library in which a series was imported twice
ReimportedInit ==
  /\ QueueInit
  /\ NoReload
  /\ seriesStore = ReimportedSeries
  /\ chapterStore = ReimportedChapters
  /\ seriesListState = fetchSeriesList(ReimportedSeries)
  /\ nextUuid = 6 + Len(RemoteChapters("1"))
  /\ chapterLanguages = {"en"}

ReimportedSpec == ReimportedInit /\ [][ReloadNext]_vars

ReloadSpec == ReloadInit /\ [][ReloadNext]_vars

Spec == Init /\ [][Next]_vars

\* React runs a scheduled render and the effects of a render, and the main
\* process answers every ipc call: what can happen without the user does
FairSpec ==
  /\ Spec
  /\ WF_vars(Render)
  /\ WF_vars(FlushEffects)
  /\ WF_vars(ImportGetSeriesReturns)
  /\ WF_vars(ImportGetChaptersReturns)

\* ------------------------------------------------ import queue: properties
\* Tasks are numbered in the order they are enqueued: task t was enqueued
\* before task u iff t < u.
Enqueued == 1..nextTid

Imported == Range(importLog)

Queued == Range(Tids(importQueue))

FirstImport(t) == CHOOSE i \in 1..Len(importLog) :
                    importLog[i] = t /\ \A j \in 1..(i - 1) : importLog[j] # t

\* C1: at most one importSeries call is in flight; an import starts only when
\* the importing flag is false, and the flag is true as long as the import of
\* a dequeued task has neither resolved nor rejected.
C1_SingleImportInFlight ==
  /\ [](Cardinality(imports) <= 1 /\ (imports # {} => importing))
  /\ [][importLog' # importLog => ~importing /\ importing' /\ imports = {}]_vars

\* an import is in flight, a task waits behind it, and the consumer effect
\* has seen both and started nothing
C1_Witness ==
  /\ imports # {}
  /\ importing /\ renderedImporting
  /\ Len(importQueue) > 0 /\ renderedQueue = importQueue
  /\ ~consumerEffectDue /\ ~eventFlushDue

\* C2: the queue is strictly FIFO: when importSeries is invoked for a task,
\* it has been invoked before for every task enqueued earlier.
C2_StrictFifo ==
  \A u \in Imported : \A t \in 1..(u - 1) :
    t \in Imported /\ FirstImport(t) < FirstImport(u)

\* C3: every enqueued task is passed to importSeries exactly once: a task
\* that has not been imported is still in the queue, and no task is imported
\* twice.
C3_ExactlyOnce ==
  /\ \A t \in Enqueued : t \in Imported \/ t \in Queued
  /\ \A i, j \in 1..Len(importLog) : importLog[i] = importLog[j] => i = j
  /\ \A t \in Imported : t \notin Queued

\* C4: the completion of an import resets the importing flag, and every task
\* in the queue eventually has its import started.
C4_Progress ==
  /\ [][imports # {} /\ imports' = {} => ~importing']_vars
  /\ \A t \in 1..MaxTasks : (t \in Queued) ~> (t \in Imported)

\* C5: a producer only appends: the queue after a producer's action is the
\* queue before it followed by the producer's tasks, one with getFirst = false
\* for handleAdd and handlePreview, one per series of the search result, in
\* result order, with getFirst = true for handleSaveAllDirectory.
C5_ProducersOnlyAppend ==
  [][nextTid' # nextTid =>
       /\ Len(importQueue') = Len(importQueue) + (nextTid' - nextTid)
       /\ SubSeq(importQueue', 1, Len(importQueue)) = importQueue
       /\ \A k \in 1..(nextTid' - nextTid) :
            LET task == importQueue'[Len(importQueue) + k]
            IN /\ task.tid = nextTid + k
               /\ IF showing
                  THEN /\ nextTid' = nextTid + 1
                       /\ task.getFirst = FALSE
                  ELSE /\ nextTid' = nextTid + Len(searchResult)
                       /\ task.getFirst = TRUE
                       /\ task.series.sourceId = searchResult[k].sourceId]_vars

\* ------------------------------------------------------ reload: properties
\* the step in which reloadSeries reconciles and writes (lines 195-226)
Reconciled == reloadPc = "getChapters" /\ reloadPc' = "getThumbnailPath"

\* a step in which the running reloadSeries call settles
Settled == reloadPc # "none" /\ (cur' # cur \/ batchPc' # batchPc)

\* C6: a fetched chapter whose source identifier is that of a chapter already
\* persisted for the series is persisted with that chapter's local identifier
\* and read flag; a fetched chapter whose source identifier is new inherits no
\* identifier, whatever its title.
C6_ChapterIdentityPreserved ==
  [][Reconciled =>
       LET old == fetchChapters(chapterStore, reloading.id)
           stored == fetchChapters(chapterStore', reloading.id)
       IN \A list \in newChapters' : \A i \in 1..Len(list) :
            \E k \in 1..Len(stored) :
              /\ stored[k].sourceId = list[i].sourceId
              /\ IF \E j \in 1..Len(old) : old[j].sourceId = list[i].sourceId
                 THEN \E j \in 1..Len(old) :
                        /\ old[j].sourceId = list[i].sourceId
                        /\ stored[k].id = old[j].id
                        /\ stored[k].read = old[j].read
                 ELSE \A j \in 1..Len(old) : stored[k].id # old[j].id]_vars

\* a reload has written a fetched chapter that has the source identifier of
\* a read chapter and the title of another stored chapter: it is stored
\* under the identifier of the first, read
C6_Witness ==
  /\ reloadPc = "getThumbnailPath"
  /\ \E list \in newChapters : \E i \in 1..Len(list) :
       \E j, j2 \in 1..Len(oldChapters) :
         /\ j # j2
         /\ oldChapters[j].sourceId = list[i].sourceId
         /\ oldChapters[j].read
         /\ oldChapters[j].title # list[i].title
         /\ oldChapters[j2].title = list[i].title
         /\ \E k \in 1..Len(fetchChapters(chapterStore, reloading.id)) :
              LET c == fetchChapters(chapterStore, reloading.id)[k]
              IN /\ c.id = oldChapters[j].id
                 /\ c.read
                 /\ c.title = list[i].title

\* C7: after the reload has written, no chapter persisted for the series
\* before it whose source identifier is absent from the fetched list is left
\* in the store.
C7_OrphansPruned ==
  [][Reconciled =>
       LET old == fetchChapters(chapterStore, reloading.id)
           stored == fetchChapters(chapterStore', reloading.id)
       IN \A list \in newChapters' : \A j \in 1..Len(old) :
            (\A i \in 1..Len(list) : list[i].sourceId # old[j].sourceId)
              => \A k \in 1..Len(stored) : stored[k].id # old[j].id]_vars

\* C8: the reload of a series of another extension than the filesystem one
\* stores the fetched metadata and leaves the identifier, the tracker keys and
\* the categories of the stored record as they are; it adds no record.
C8_LocalFieldsKept ==
  [][Reconciled /\ reloading.extensionId # FS_METADATA =>
       \A before \in fetchSeries(seriesStore, reloading.id) :
         /\ Cardinality(seriesStore') = Cardinality(seriesStore)
         /\ \E after \in fetchSeries(seriesStore', reloading.id) :
              /\ after.id = before.id
              /\ after.trackerKeys = before.trackerKeys
              /\ after.categories = before.categories
              /\ \A fetched \in newSeries :
                   /\ after.title = fetched.title
                   /\ after.remoteCoverUrl = fetched.remoteCoverUrl]_vars

\* C9: the reload of a filesystem series leaves the stored series record as
\* it is, but for its count of unread chapters, and every other series record.
C9_FilesystemSeriesKept ==
  [][Reconciled /\ reloading.extensionId = FS_METADATA =>
       \A before \in fetchSeries(seriesStore, reloading.id) :
         \E after \in fetchSeries(seriesStore', reloading.id) :
           /\ [after EXCEPT !.numberUnread = before.numberUnread] = before
           /\ seriesStore' \ {after} = seriesStore \ {before}]_vars

\* C10: when the extension is not available, or returns no series or no
\* chapter list, reloadSeries resolves to an Error and the store is as before.
C10_FailsWithoutWriting ==
  [][/\ reloadPc \in {"getExtension", "getSeries", "getChapters"}
     /\ Settled
     /\ ipcReply' = "undefined"
     => /\ ret' = "Error"
        /\ seriesStore' = seriesStore
        /\ chapterStore' = chapterStore]_vars

\* ----------------------------------------------- reloadSeriesList: properties
\* a step in which the running reloadSeries call settles as a failure
Failed == Settled /\ ret' \in {"Error", "rejected"}

\* C11: reloadSeriesList never short-circuits: whatever way the reload of a
\* series settles, also when an ipc call of it throws, the series counts as
\* attempted, a failing series is recorded in failedToUpdate, and the batch goes
\* on; once the batch has stopped, every series of the list has been attempted.
C11_NoShortCircuit ==
  /\ [][Settled => cur' > cur /\ batchPc' \in {"running", "done"}]_vars
  /\ [][Failed => failedToUpdate'[Len(failedToUpdate) + 1] = reloading]_vars
  /\ [](batchPc \in {"done", "rejected"} => cur = Len(sortedSeriesList))

\* C12: reloadSeriesList sets the reloading flag when it starts and has reset
\* it when it has stopped, whether the reloads succeeded or failed: the flag
\* is true exactly as long as the batch is running.
C12_FlagFollowsBatch == reloadingSeriesList <=> batchPc = "running"

\* the summary the counts determine: all reloaded, the one series of the batch
\* failed, or some of several failed
ExpectedSummary ==
  IF failedToUpdate = <<>>
  THEN [title |-> "Library refreshed", count |-> Len(seriesList), series |-> <<>>]
  ELSE IF Len(seriesList) = 1
       THEN [title |-> "Library refresh failed", count |-> 0,
             series |-> failedToUpdate[1].title]
       ELSE [title |-> "Library refreshed with errors", count |-> Len(failedToUpdate),
             series |-> <<>>]

\* C13: a batch that has stopped has emitted exactly one summary, the one its
\* number of series and of failures determine, and had published the series
\* list as stored by then; a running batch has emitted none.
C13_OneSummary ==
  /\ [](batchPc = "running" => toast = {})
  /\ [](batches > 0 /\ batchPc # "running" => toast = {ExpectedSummary})
  /\ [][batchPc' = "done" /\ batchPc # "done" =>
          seriesListState' = fetchSeriesList(seriesStore')]_vars

\* --------------------------------------------------- importSeries: properties
\* a step in which the importSeries call in flight settles
ImportSettled == imports # {} /\ imports' = {}

ImportRejected == ImportSettled /\ \E l \in lastImport' : l.status = "rejected"

ImportResolved == ImportSettled /\ \E l \in lastImport' : l.status = "resolved"

C15_SameRecordUpdated ==
  [][ImportResolved =>
       \A imp \in imports :
         imp.task.series.id # NoId =>
           /\ Cardinality(fetchSeries(seriesStore', imp.task.series.id)) = 1
           /\ \A s \in seriesStore' : s.id = imp.task.series.id \/ s \in seriesStore
           /\ fetchSeries(seriesStore, imp.task.series.id) # {}
                => Cardinality(seriesStore') = Cardinality(seriesStore)]_vars

\* a previewed series has been imported a second time under its identifier,
\* this time with getFirst and the source answering under an identifier of
\* its own: one record of the identifier is stored
C15_Witness ==
  \E l \in lastImport :
    /\ l.status = "resolved"
    /\ l.replaced
    /\ l.task.tid = 2
    /\ l.task.getFirst
    /\ l.task.series.preview
    /\ \E f \in l.seriesToAdd : f.id \notin {NoId, l.task.series.id}
    /\ Cardinality(fetchSeries(seriesStore, l.task.series.id)) = 1
    /\ Cardinality(seriesStore) = 3

UnreadIn(chapters, languages) ==
  Cardinality({i \in 1..Len(chapters) :
                 /\ ~chapters[i].read
                 /\ languages = {} \/ chapters[i].languageKey \in languages})

\* chapters {unread en, read en, unread fr}
UnreadExample ==
  <<RemoteChapter("1", <<12, 1>>, "en"),
    [RemoteChapter("2", <<12, 2>>, "en") EXCEPT !.read = TRUE],
    RemoteChapter("3", <<12, 3>>, "fr")>>

\* the count updateSeriesNumberUnread stores for a series with the chapters
\* of the example
UnreadOfExample(languages) ==
  LET series == [SearchItem(EXT, "1") EXCEPT !.id = 1]
      store == updateSeriesNumberUnread({series}, [id \in {1} |-> UnreadExample],
                                        series, languages)
  IN {s.numberUnread : s \in store}

ReloadedUnreadCountConsistent ==
  [][Reconciled \/ (Settled /\ ret' = "void") =>
       \A stored \in fetchSeries(seriesStore', reloading.id) :
         stored.numberUnread =
           UnreadIn(fetchChapters(chapterStore', reloading.id), chapterLanguages)]_vars

lettersOf(title) == SelectSeq(title, LAMBDA c : ~isDigit(c))

numberOf(title) == numericValue(SelectSeq(title, isDigit))

titlesOf(chapters) == [i \in 1..Len(chapters) |-> chapters[i].title]

\* C18: the chapters importSeries passes to upsertChapters are the fetched
\* ones, each once, ordered by title with the numbers in the titles compared
\* by value ("10", "2", "1" as "1", "2", "10"), and the store keeps them in
\* that order.
C18_ChaptersSortedNaturally ==
  [][ImportResolved =>
       \A l \in lastImport' : \A fetched \in l.chapters : \A a \in l.added :
         LET upserted == l.upserted
             stored == fetchChapters(chapterStore', a.id)
         IN /\ Len(upserted) = Len(fetched)
            /\ \A c \in Range(fetched) \cup Range(upserted) :
                 Cardinality({i \in 1..Len(fetched) : fetched[i] = c})
                   = Cardinality({i \in 1..Len(upserted) : upserted[i] = c})
            /\ \A i, j \in 1..Len(upserted) :
                 i < j /\ lettersOf(upserted[i].title) = lettersOf(upserted[j].title)
                   => numberOf(upserted[i].title) <= numberOf(upserted[j].title)
            /\ titlesOf(fetched) = <<<<12, 1, 0>>, <<12, 2>>, <<12, 1>>>>
                 => titlesOf(upserted) = <<<<12, 1>>, <<12, 2>>, <<12, 1, 0>>>>
            /\ titlesOf(SubSeq(stored, Len(stored) - Len(upserted) + 1, Len(stored)))
                 = titlesOf(upserted)]_vars

\* the source returned the chapters "10", "2", "1" for a series that was not
\* stored: its stored chapters are "1", "2", "10"
C18_Witness ==
  \E l \in lastImport : \E a \in l.added :
    /\ l.status = "resolved"
    /\ ~l.replaced
    /\ \E fetched \in l.chapters :
         titlesOf(fetched) = <<<<12, 1, 0>>, <<12, 2>>, <<12, 1>>>>
    /\ titlesOf(fetchChapters(chapterStore, a.id)) = <<<<12, 1>>, <<12, 2>>, <<12, 1, 0>>>>

\* no two chapters of a list have the same source identifier
distinctSourceIds(chapters) ==
  \A i, j \in 1..Len(chapters) : chapters[i].sourceId = chapters[j].sourceId => i = j

uniqueSourceIds(store) == \A id \in DOMAIN store : distinctSourceIds(store[id])

\* C19: no two stored chapters of a series have the same source identifier:
\* an import and a reload whose fetched chapter list has distinct source
\* identifiers keep it so, also the import of a series that has stored
\* chapters under its identifier.
C19_SourceIdsUnique ==
  /\ [](nextTid = 0 /\ batches = 0 => uniqueSourceIds(chapterStore))
  /\ [][/\ ImportResolved
        /\ uniqueSourceIds(chapterStore)
        /\ \A l \in lastImport' : \A fetched \in l.chapters : distinctSourceIds(fetched)
        => uniqueSourceIds(chapterStore')]_vars
  /\ [][/\ Reconciled
        /\ uniqueSourceIds(chapterStore)
        /\ \A fetched \in newChapters' : distinctSourceIds(fetched)
        => uniqueSourceIds(chapterStore')]_vars

\* C20: a preview series is never persisted: no stored series record has
\* preview = true, and the import of a task with a preview series writes
\* neither series nor chapters.
C20_PreviewNeverPersisted ==
  /\ [](\A s \in seriesStore : ~s.preview)
  /\ [][ImportSettled /\ (\E imp \in imports : imp.task.series.preview)
          => seriesStore' = seriesStore /\ chapterStore' = chapterStore]_vars

\* ------------------------------------------- reload: order and cover refresh
\* C21: within one reloadSeriesList the series are reloaded one after the
\* other in ascending order of title: sortedSeriesList is the caller's list
\* sorted, the caller's list stays as it was given, the call in flight is for
\* the series after the `cur` already settled, and a call starts only in the
\* step in which the one before it has resolved, or in which the batch starts.
C21_SequentialInTitleOrder ==
  /\ [](batchPc = "running" =>
          /\ reloadPc # "none"
          /\ cur < Len(sortedSeriesList)
          /\ Len(sortedSeriesList) = Len(seriesList)
          /\ \A s \in Range(seriesList) :
               Cardinality({i \in 1..Len(seriesList) : seriesList[i] = s})
                 = Cardinality({i \in 1..Len(sortedSeriesList) : sortedSeriesList[i] = s})
          /\ \A i, j \in 1..Len(sortedSeriesList) :
               i < j => lexCompare(sortedSeriesList[i].title, sortedSeriesList[j].title) <= 0)
  /\ [][batchPc = "running" =>
          /\ seriesList' = seriesList /\ sortedSeriesList' = sortedSeriesList
          /\ cur' \in {cur, cur + 1}
          /\ cur' = cur + 1 => reloadPc' \in {"getExtension", "none"} /\ ret' # "rejected"
          /\ cur' = cur /\ batchPc' = "running" =>
               <<reloadPc, reloadPc'>> \in {<<"getExtension", "getSeries">>,
                                            <<"getSeries", "getChapters">>,
                                            <<"getChapters", "getThumbnailPath">>}
                 \/ reloadPc' = reloadPc]_vars
  /\ [][batchPc # "running" /\ batchPc' = "running" => cur' = 0 /\ reloadPc' = "getExtension"]_vars

\* the library was given in the order the series were stored, which is not
\* the order of the titles; the first series of the sorted list has been
\* reloaded and the second, which the caller listed first, is being reloaded
C21_Witness ==
  /\ batchPc = "running"
  /\ Len(seriesList) = 2
  /\ seriesList # sortedSeriesList
  /\ cur = 1
  /\ ret = "void"
  /\ reloadPc = "getSeries"
  /\ reloading = seriesList[1]

\* ------------------------------------------------------------------ C22

\* The step in which reloadSeries resumes from `await GET_THUMBNAIL_PATH`
CoverRefreshDecided == reloadPc = "getThumbnailPath" /\ reloadPc' # "getThumbnailPath"

\* The cover URL reloadSeries writes differs from the one of the series it
\* was called with (line 232, first operand)
coverUrlChanged == \E ns \in newSeries : ns.remoteCoverUrl # reloading.remoteCoverUrl

\* C22: after a successful reconciliation the old thumbnail is deleted and a
\* cover download is started if and only if the remote cover URL has changed
\* or there is no local thumbnail file; the refresh is best-effort: the
\* reload returns without a failure and the series and chapter writes of the
\* reconciliation stay as they are.
C22_CoverRefreshBestEffort ==
  [][CoverRefreshDecided =>
       /\ ret' = "void"
       /\ seriesStore' = seriesStore
       /\ chapterStore' = chapterStore
       /\ thumbnailUpdates' \subseteq {reloading.id}
       /\ thumbnailUpdates' = {reloading.id}
            <=> (coverUrlChanged \/ ipcReply' \in {"null", "no file"})]_vars

\* The refresh as the code decides it: only for a thumbnail path that is not
\* null, and never a failure unless the path lookup itself is rejected
C22_RefreshAsCoded ==
  [][CoverRefreshDecided =>
       /\ seriesStore' = seriesStore
       /\ chapterStore' = chapterStore
       /\ ret' = (IF ipcReply' = "thrown" THEN "rejected" ELSE "void")
       /\ ipcReply' # "thrown" =>
            (thumbnailUpdates' = {reloading.id}
               <=> /\ ipcReply' # "null"
                   /\ coverUrlChanged \/ ipcReply' = "no file")]_vars

\* ------------------------------------------------------------------ C23

\* C23: on every successful import the consumer publishes the series list as
\* re-read from the library in the step in which it resets the importing
\* flag, so the published list contains the series just imported; a cover
\* download is started for the task exactly when its series is not a preview;
\* on a failure the published list and the cover downloads stay as they were.
C23_ListRefreshedOnSuccess ==
  /\ [][ImportResolved =>
          /\ importing' = FALSE
          /\ seriesListState' = fetchSeriesList(seriesStore')
          /\ \A l \in lastImport' : \A a \in l.added :
                \E i \in 1..Len(seriesListState') :
                  /\ seriesListState'[i].id = a.id
                  /\ seriesListState'[i].sourceId = a.sourceId
                  /\ seriesListState'[i].title = a.title
          /\ \A imp \in imports :
                /\ imp.task.series.preview => coverDownloads' = coverDownloads
                /\ ~imp.task.series.preview =>
                     coverDownloads' = coverDownloads \cup {imp.task.tid}]_vars
  /\ [][ImportRejected =>
          /\ importing' = FALSE
          /\ seriesListState' = seriesListState
          /\ coverDownloads' = coverDownloads]_vars
  /\ [][importing /\ importing' => seriesListState' = seriesListState]_vars

\* A series that was not in the library has been imported, the flag is back
\* to false, the published list has one more series and a cover download was
\* started for the task, and for no task before it
C23_Witness ==
  /\ ~importing
  /\ nextTid = 2
  /\ coverDownloads = {2}
  /\ Len(seriesListState) = Cardinality(LibrarySeries) + 1
  /\ \E l \in lastImport :
       /\ l.status = "resolved"
       /\ ~l.replaced
       /\ ~l.task.series.preview
       /\ \A a \in l.added : \E i \in 1..Len(seriesListState) : seriesListState[i].id = a.id

\* ------------------------------------------------- reload and user operations

\* A step of the reloadSeries call in flight
ReloadStep == reloadPc # "none" /\ (reloadPc' # reloadPc \/ cur' # cur \/ batchPc' # batchPc)

\* ------------------------------------------------------------------ C24

\* C24: no update of the locally owned fields is lost: whatever tracker keys
\* and categories the stored series has when the reload of it writes, the
\* stored series has them after the write, also when they were changed after
\* the batch took its snapshot of the series.
C24_NoLostUpdate ==
  [][ReloadStep =>
       \A before \in fetchSeries(seriesStore, reloading.id) :
         \A after \in fetchSeries(seriesStore', reloading.id) :
           /\ after.trackerKeys = before.trackerKeys
           /\ after.categories = before.categories]_vars

\* ------------------------------------------------------------------ C25

\* C25: the read flags written by markChapters during a reload are not lost:
\* the reload reads the stored chapters and writes the reconciled ones in one
\* step, every stored chapter that is still at the source is stored after
\* that step under its id with the read flag it had before it, and no other
\* step of the reload writes a chapter.
C25_ReadStateKept ==
  /\ [][Reconciled =>
          LET old == fetchChapters(chapterStore, reloading.id)
              stored == fetchChapters(chapterStore', reloading.id)
          IN /\ oldChapters' = old
             /\ \A j \in 1..Len(old) :
                  (\E list \in newChapters' : \E i \in 1..Len(list) :
                     list[i].sourceId = old[j].sourceId)
                  => \E k \in 1..Len(stored) :
                       /\ stored[k].id = old[j].id
                       /\ stored[k].read = old[j].read
                       /\ \A l \in 1..Len(stored) : stored[l].id = old[j].id => l = k]_vars
  /\ [][ReloadStep /\ ~Reconciled => chapterStore' = chapterStore]_vars

\* ------------------------------------------------------------------ C26

\* C26: a removal is not undone by a reload in flight: when the series being
\* reloaded is no longer in the store, no step of its reload, and so neither
\* the batch around it, stores that series or a chapter of it again.
C26_RemovalNotUndone ==
  [][ReloadStep /\ fetchSeries(seriesStore, reloading.id) = {} =>
       /\ fetchSeries(seriesStore', reloading.id) = {}
       /\ fetchChapters(chapterStore', reloading.id) = <<>>]_vars

\* ------------------------------------------------------------------ C27

\* The ids goToSeries is called with in this step
navigatedTo == {navigations'[i] : i \in (Len(navigations) + 1)..Len(navigations')}

\* C27: preview navigation follows the import: in the step in which
\* AddSeriesModal calls goToSeries for a preview series and closes the dialog,
\* the preview task of that series is neither in the queue nor in flight; the
\* consumer took it before and its import has settled.
C27_NavigationFollowsImport ==
  [][\A id \in navigatedTo :
       /\ showing' = FALSE
       /\ \A i \in 1..Len(importQueue') : importQueue'[i].series.id # id
       /\ \A imp \in imports' : imp.task.series.id # id
       /\ \A i \in 1..Len(importQueue) : importQueue[i].series.id # id
       /\ \A imp \in imports : imp.task.series.id # id]_vars

====
